---------------------------- MODULE Spec2Model ----------------------------
(***************************************************************************)
(* A model of src/src/geometry.cpp: minimum-image wrapping, the distance,  *)
(* angle and dihedral functions and their cutoff-gated derivative          *)
(* variants.                                                               *)
(*                                                                         *)
(* Numbers.  A C++ double is modelled as a tagged pair:                    *)
(*   <<"num", n>>    the finite value n / SCALE (fixed point),             *)
(*   <<"inf", s>>    +infinity (s = 1) or -infinity (s = -1),              *)
(*   <<"nan", 0>>    NaN,                                                  *)
(*   <<"uninit", 0>> the indeterminate content of memory obtained from     *)
(*                   new[] and not yet written.                            *)
(* Particle positions and box half-lengths are lattice values (integers),  *)
(* so the subtraction and the comparisons of the minimum-image code are    *)
(* exact; division, sqrt, acos and sin round (toward zero) to 1 / SCALE.   *)
(* Zero carries no sign: every zero divisor in the code is a sqrt or a     *)
(* product of non-negative factors, hence +0.                              *)
(***************************************************************************)
EXTENDS Integers, Naturals, Sequences, FiniteSets, TLC

\* ------------------------------------------------------------------ bounds
\* Fixed-point resolution of a modelled double: 1 / SCALE.
SCALE == 1000
\* Coordinates of the geometry configurations range over -MaxCoord..MaxCoord.
MaxCoord == 2
\* Half-length of the (cubic) box of the geometry configurations.
HalfLen == 2
\* Squared cutoffs of the gated calls range over 0..MaxCutoff2 (lattice units).
MaxCutoff2 == 2

\* --------------------------------------------------------- program constants
DIMENSION == 3
\* One unit in the last place of the fixed point: the "fixed small epsilon".
VERYSMALL_F == 1
\* 1.0E10 in the source; capped to what a 32-bit integer holds.  It exceeds
\* every squared distance of the model, as 1.0E10 does in the program.
MAXFLOAT == 1000000000
\* 180 / pi = 57.29578, in fixed point.
DEGREES_PER_RADIAN == (57296 * SCALE) \div 1000

Axes == 0 .. (DIMENSION - 1)
Particles == 0 .. 3

\* ------------------------------------------------------------- IEEE doubles
NaN == <<"nan", 0>>
Uninit == <<"uninit", 0>>
Num(n) == <<"num", n>>
Inf(s) == <<"inf", s>>
\* A lattice value as a double.
D(x) == Num(x * SCALE)

IsNum(x) == x[1] = "num"
IsInf(x) == x[1] = "inf"
IsNaN(x) == x[1] = "nan"
IsUninit(x) == x[1] = "uninit"

Abs(n) == IF n < 0 THEN -n ELSE n
Sgn(n) == IF n < 0 THEN -1 ELSE IF n > 0 THEN 1 ELSE 0
\* Integer division rounding toward zero (b # 0).
DivTZ(a, b) == Sgn(a) * Sgn(b) * (Abs(a) \div Abs(b))
\* Sign of a double that is a number or an infinity; a zero counts as +0.
SignOf(x) == IF IsInf(x) THEN x[2] ELSE IF x[2] < 0 THEN -1 ELSE 1

RECURSIVE ISqrtBetween(_, _, _)
ISqrtBetween(v, lo, hi) ==
    IF lo >= hi THEN lo
    ELSE LET mid == (lo + hi + 1) \div 2
         IN  IF mid * mid <= v THEN ISqrtBetween(v, mid, hi)
             ELSE ISqrtBetween(v, lo, mid - 1)
\* Floor of the square root of v >= 0 (v < 2^31, so the root is below 46341).
ISqrt(v) == ISqrtBetween(v, 0, 46340)

FNeg(x) ==
    CASE IsNum(x) -> Num(-x[2])
      [] IsInf(x) -> Inf(-x[2])
      [] OTHER    -> x

FAdd(x, y) ==
    CASE IsUninit(x) \/ IsUninit(y) -> Uninit
      [] IsNaN(x) \/ IsNaN(y)       -> NaN
      [] IsInf(x) /\ IsInf(y)       -> IF x[2] = y[2] THEN x ELSE NaN
      [] IsInf(x)                   -> x
      [] IsInf(y)                   -> y
      [] OTHER                      -> Num(x[2] + y[2])

FSub(x, y) == FAdd(x, FNeg(y))

FMul(x, y) ==
    CASE IsUninit(x) \/ IsUninit(y) -> Uninit
      [] IsNaN(x) \/ IsNaN(y)       -> NaN
      [] IsInf(x) \/ IsInf(y)       ->
            IF (IsNum(x) /\ x[2] = 0) \/ (IsNum(y) /\ y[2] = 0)
            THEN NaN
            ELSE Inf(SignOf(x) * SignOf(y))
      [] OTHER                      -> Num(DivTZ(x[2] * y[2], SCALE))

FDiv(x, y) ==
    CASE IsUninit(x) \/ IsUninit(y) -> Uninit
      [] IsNaN(x) \/ IsNaN(y)       -> NaN
      [] IsInf(x) /\ IsInf(y)       -> NaN
      [] IsInf(x)                   -> Inf(SignOf(x) * SignOf(y))
      [] IsInf(y)                   -> Num(0)
      [] y[2] = 0                   -> IF x[2] = 0 THEN NaN ELSE Inf(SignOf(x))
      [] OTHER                      -> Num(DivTZ(x[2] * SCALE, y[2]))

FSqrt(x) ==
    CASE IsUninit(x)             -> Uninit
      [] IsNaN(x)                -> NaN
      [] IsInf(x)                -> IF x[2] = 1 THEN x ELSE NaN
      [] x[2] < 0                -> NaN
      [] OTHER                   -> Num(ISqrt(x[2] * SCALE))

\* x < y and x > y on doubles: FALSE as soon as an operand is NaN (or
\* indeterminate memory, which the code never compares).
FLt(x, y) ==
    CASE ~(x[1] \in {"num", "inf"}) \/ ~(y[1] \in {"num", "inf"}) -> FALSE
      [] IsInf(x) /\ IsInf(y) -> x[2] < y[2]
      [] IsInf(x)             -> x[2] = -1
      [] IsInf(y)             -> y[2] = 1
      [] OTHER                -> x[2] < y[2]

FGt(x, y) == FLt(y, x)

\* acos and sin of <cmath>, tabulated: <<cos, angle, sin>> in thousandths (of
\* 1, of a radian, of 1), by decreasing cosine.
TrigTable ==
    << <<1000, 0, 0>>,       <<999, 45, 45>>,      <<966, 262, 259>>,
       <<866, 524, 500>>,    <<707, 785, 707>>,    <<500, 1047, 866>>,
       <<259, 1309, 966>>,   <<0, 1571, 1000>>,    <<-259, 1833, 966>>,
       <<-500, 2094, 866>>,  <<-707, 2356, 707>>,  <<-866, 2618, 500>>,
       <<-966, 2880, 259>>,  <<-999, 3097, 45>>,   <<-1000, 3142, 0>> >>

\* A thousandth-valued table entry in fixed point.
Milli(m) == DivTZ(m * SCALE, 1000)

\* acos: NaN outside [-1, 1]; inside, the angle of the first table row whose
\* cosine does not exceed the argument (acos is decreasing: acos(c) = 0 only
\* for c = 1, and acos(c) < pi for c > -1).
Acos(x) ==
    CASE IsUninit(x) -> Uninit
      [] ~IsNum(x)   -> NaN
      [] x[2] > SCALE \/ x[2] < -SCALE -> NaN
      [] OTHER ->
            LET k == CHOOSE j \in 1 .. Len(TrigTable) :
                        /\ Milli(TrigTable[j][1]) <= x[2]
                        /\ \A i \in 1 .. (j - 1) : Milli(TrigTable[i][1]) > x[2]
            IN  Num(Milli(TrigTable[k][2]))

\* sin on [0, pi]: the sine of the last table row whose angle does not exceed
\* the argument.
Sin(x) ==
    CASE IsUninit(x) -> Uninit
      [] ~IsNum(x)   -> NaN
      [] OTHER ->
            LET k == CHOOSE j \in 1 .. Len(TrigTable) :
                        /\ (j = 1 \/ Milli(TrigTable[j][2]) <= x[2])
                        /\ \A i \in (j + 1) .. Len(TrigTable) :
                              Milli(TrigTable[i][2]) > x[2]
            IN  Num(Milli(TrigTable[k][3]))


\* ------------------------------------------------------- small helper functions
\* The array {a, b} of two particle ids.
Pair(a, b) == [k \in 0 .. 1 |-> IF k = 0 THEN a ELSE b]
Two == Num(2 * SCALE)
One == Num(SCALE)
Half == Num(SCALE \div 2)
Four == Num(4 * SCALE)
\* t = 0.0; for (i < 3) t += f[i]
Sum3(f) == FAdd(FAdd(FAdd(Num(0), f[0]), f[1]), f[2])
\* for (int i = 0; i < 3; i++) v[i] = F(i): the array the loop fills.
ForAxes(F(_)) == (0 :> F(0)) @@ (1 :> F(1)) @@ (2 :> F(2))
\* A buffer of n derivative vectors fresh from new[]: indeterminate content.
NewArray(n) == [k \in 0 .. (n - 1) |-> ForAxes(LAMBDA i : Uninit)]

\* Per axis: the raw difference position[ids[1]] - position[ids[0]], minus one
\* box length when it exceeds +half, plus one box length when below -half.
\* Mutant: the correction of differences below -half is missing.
min_image_component_upper_only(raw, half) ==
    IF FGt(raw, half) THEN FSub(raw, FMul(Two, half)) ELSE raw

min_image_component(raw, half) ==
    IF FGt(raw, half) THEN FSub(raw, FMul(Two, half))
    ELSE IF FLt(raw, FNeg(half)) THEN FAdd(raw, FMul(Two, half))
    ELSE raw

subtract_min_image_vectors(ids, pos, box) ==
    ForAxes(LAMBDA i :
        min_image_component(FSub(D(pos[ids[1]][i]), D(pos[ids[0]][i])), D(box[i])))

cross_product(a, b) ==
    ForAxes(LAMBDA i :
        CASE i = 0 -> FSub(FMul(a[1], b[2]), FMul(a[2], b[1]))
          [] i = 1 -> FSub(FMul(a[2], b[0]), FMul(a[0], b[2]))
          [] i = 2 -> FSub(FMul(a[0], b[1]), FMul(a[1], b[0])))

dot_product(a, b) == Sum3(ForAxes(LAMBDA i : FMul(a[i], b[i])))

\* The single-step wrap of position l into the primary cell; every other
\* position is left as it is.
\* Mutant: a coordinate of exactly one box length is taken to be inside.
wrap_component_strict(x, half) ==
    IF x < 0 THEN x + 2 * half
    ELSE IF x > 2 * half THEN x - 2 * half
    ELSE x

wrap_component(x, half) ==
    IF x < 0 THEN x + 2 * half
    ELSE IF x >= 2 * half THEN x - 2 * half
    ELSE x

get_minimum_image(l, frx, box) ==
    [frx EXCEPT ![l] = ForAxes(LAMBDA i : wrap_component(frx[l][i], box[i]))]

check_sine(s) ==
    LET s1 == IF FLt(s, Num(0)) /\ FGt(s, Num(-VERYSMALL_F))
              THEN Num(-VERYSMALL_F) ELSE s
    IN  IF FGt(s1, Num(0)) /\ FLt(s1, Num(VERYSMALL_F))
        THEN Num(VERYSMALL_F) ELSE s1

\* Mutant: only the upper bound is clamped.
check_cos_upper_only(cos_theta) ==
    LET max == FSub(One, Num(VERYSMALL_F))
    IN  IF FGt(cos_theta, max) THEN max ELSE cos_theta

check_cos(cos_theta) ==
    LET max == FSub(One, Num(VERYSMALL_F))
        min == FAdd(FNeg(One), Num(VERYSMALL_F))
    IN  IF FGt(cos_theta, max) THEN max
        ELSE IF FLt(cos_theta, min) THEN min
        ELSE cos_theta

\* ------------------------------------------------- functions with derivatives
(* Every function is an operator from its inputs and the prior content of the
   caller's output buffers (pv, derivs) to a record:
     ret          the value returned (TRUE for a void function),
     param_val    the caller's param_val after the call,
     derivatives  the caller's derivative buffer after the call,
     writes       the output locations the call assigned,
     news/deletes the number of new[] and delete[] executed,
     acos_calls   for each acos call, the cosine as computed (raw) and the
                  argument acos received (arg).                               *)

\* Mutant: a pair exactly at the cutoff is reported out of range.
beyond_cutoff_inclusive(rr2, c2) == FGt(rr2, c2) \/ rr2 = c2

\* if (rr2 > cutoff2)
beyond_cutoff(rr2, c2) == FGt(rr2, c2)

conditionally_calc_squared_distance_and_derivatives(ids, pos, box, cutoff2, pv, derivs) ==
    LET displacement == subtract_min_image_vectors(ids, pos, box)
        rr2 == Sum3(ForAxes(LAMBDA i : FMul(displacement[i], displacement[i])))
    IN  IF beyond_cutoff(rr2, cutoff2)
        THEN [ret |-> FALSE, param_val |-> rr2, derivatives |-> derivs,
              writes |-> {"param_val"}, news |-> 0, deletes |-> 0,
              acos_calls |-> <<>>]
        ELSE [ret |-> TRUE, param_val |-> rr2,
              derivatives |->
                 [derivs EXCEPT ![0] = ForAxes(LAMBDA i : FMul(Two, displacement[i]))],
              writes |-> {"param_val", "derivatives[0]"},
              news |-> 0, deletes |-> 0, acos_calls |-> <<>>]

\* The part of conditionally_calc_distance_and_derivatives after the squared
\* distance sq was found within the cutoff: the root, and the derivative
\* rescaled by it.
distance_within_cutoff(sq) ==
    LET rr == FSqrt(sq.param_val)
    IN  [sq EXCEPT
           !.param_val = rr,
           !.derivatives =
              [sq.derivatives EXCEPT ![0] =
                 ForAxes(LAMBDA i :
                    FDiv(FMul(Half, sq.derivatives[0][i]), rr))]]

conditionally_calc_distance_and_derivatives(ids, pos, box, cutoff2, pv, derivs) ==
    LET sq == conditionally_calc_squared_distance_and_derivatives(
                 ids, pos, box, cutoff2, pv, derivs)
    IN  IF sq.ret THEN distance_within_cutoff(sq) ELSE sq

\* The exit taken when a sub-pair is beyond the cutoff: both scratch buffers
\* are deleted and nothing of the caller's is assigned.
\* Mutant: the early exit returns without deleting the scratch buffers.
angle_cutoff_exit_leaking(pv, derivs) ==
    [ret |-> FALSE, param_val |-> pv, derivatives |-> derivs,
     writes |-> {}, news |-> 2, deletes |-> 0, acos_calls |-> <<>>]

\* Mutant: the early exit zeroes the caller's param_val.
angle_cutoff_exit_zeroing(pv, derivs) ==
    [ret |-> FALSE, param_val |-> Num(0), derivatives |-> derivs,
     writes |-> {"param_val"}, news |-> 2, deletes |-> 2, acos_calls |-> <<>>]

angle_cutoff_exit(pv, derivs) ==
    [ret |-> FALSE, param_val |-> pv, derivatives |-> derivs,
     writes |-> {}, news |-> 2, deletes |-> 2, acos_calls |-> <<>>]

\* The part of conditionally_calc_angle_and_derivatives after both sub-pairs
\* were found within the cutoff; it reads the scratch buffers dist_derivs_20
\* and dist_derivs_21 and the squared distances rr2_20 and rr2_21, and ends
\* by deleting the scratch buffers.
angle_within_cutoff(dist_derivs_20, dist_derivs_21, rr2_20, rr2_21, derivs) ==
    LET rr_20 == FSqrt(rr2_20)
        rr_21 == FSqrt(rr2_21)
        raw == FDiv(dot_product(dist_derivs_20[0], dist_derivs_21[0]),
                    FMul(FMul(Four, rr_20), rr_21))
        cos_theta == check_cos(raw)
        theta == Acos(cos_theta)
        sin_theta == Sin(theta)
        rr_01_1 == FDiv(One, FMul(FMul(rr_20, rr_21), sin_theta))
        rr_00c == FDiv(cos_theta, FMul(FMul(rr_20, rr_20), sin_theta))
        rr_11c == FDiv(cos_theta, FMul(FMul(rr_21, rr_21), sin_theta))
    IN  [ret |-> TRUE,
         param_val |-> FMul(theta, Num(DEGREES_PER_RADIAN)),
         derivatives |->
            [derivs EXCEPT
               ![0] = ForAxes(LAMBDA i :
                         FMul(Half, FSub(FMul(dist_derivs_21[0][i], rr_01_1),
                                         FMul(rr_00c, dist_derivs_20[0][i])))),
               ![1] = ForAxes(LAMBDA i :
                         FMul(Half, FSub(FMul(dist_derivs_20[0][i], rr_01_1),
                                         FMul(rr_11c, dist_derivs_21[0][i]))))],
         writes |-> {"param_val", "derivatives[0]", "derivatives[1]"},
         news |-> 2, deletes |-> 2,
         acos_calls |-> << [raw |-> raw, arg |-> cos_theta] >>]

conditionally_calc_angle_and_derivatives(ids, pos, box, cutoff2, pv, derivs) ==
    LET sq20 == conditionally_calc_squared_distance_and_derivatives(
                   Pair(ids[2], ids[0]), pos, box, cutoff2, Uninit, NewArray(1))
        sq21 == conditionally_calc_squared_distance_and_derivatives(
                   Pair(ids[2], ids[1]), pos, box, cutoff2, Uninit, NewArray(1))
    IN  IF ~sq20.ret \/ ~sq21.ret
        THEN angle_cutoff_exit(pv, derivs)
        ELSE angle_within_cutoff(sq20.derivatives, sq21.derivatives,
                                 sq20.param_val, sq21.param_val, derivs)

\* im: the prior content of the caller's buffers dist_derivs_20,
\* dist_derivs_21, rr_20 and rr_21, which the record returns as im.
conditionally_calc_angle_and_intermediates(ids, pos, box, cutoff2, im, pv, derivs) ==
    LET sq20 == conditionally_calc_squared_distance_and_derivatives(
                   Pair(ids[2], ids[0]), pos, box, cutoff2, Uninit, im.dist_derivs_20)
        sq21 == conditionally_calc_squared_distance_and_derivatives(
                   Pair(ids[2], ids[1]), pos, box, cutoff2, Uninit, im.dist_derivs_21)
        dist_derivs_20 == sq20.derivatives
        dist_derivs_21 == sq21.derivatives
    IN  IF ~sq20.ret \/ ~sq21.ret
        THEN [ret |-> FALSE, param_val |-> pv, derivatives |-> derivs,
              im |-> [im EXCEPT !.dist_derivs_20 = dist_derivs_20,
                                !.dist_derivs_21 = dist_derivs_21],
              writes |-> {}, news |-> 0, deletes |-> 0, acos_calls |-> <<>>]
        ELSE
          LET rr_20 == FSqrt(sq20.param_val)
              rr_21 == FSqrt(sq21.param_val)
              raw == FDiv(dot_product(dist_derivs_20[0], dist_derivs_21[0]),
                          FMul(FMul(Four, rr_20), rr_21))
              cos_theta == check_cos(raw)
              theta == Acos(cos_theta)
              sin_theta == Sin(theta)
              rr_01_1 == FDiv(One, FMul(FMul(rr_20, rr_21), sin_theta))
              rr_00c == FDiv(cos_theta, FMul(FMul(rr_20, rr_20), sin_theta))
              rr_11c == FDiv(cos_theta, FMul(FMul(rr_21, rr_21), sin_theta))
          IN  [ret |-> TRUE,
               param_val |-> FMul(theta, Num(DEGREES_PER_RADIAN)),
               derivatives |->
                  [derivs EXCEPT
                     ![0] = ForAxes(LAMBDA i :
                               FMul(Half, FSub(FMul(dist_derivs_21[0][i], rr_01_1),
                                               FMul(rr_00c, dist_derivs_20[0][i])))),
                     ![1] = ForAxes(LAMBDA i :
                               FMul(Half, FSub(FMul(dist_derivs_20[0][i], rr_01_1),
                                               FMul(rr_11c, dist_derivs_21[0][i]))))],
               im |-> [dist_derivs_20 |-> dist_derivs_20,
                       dist_derivs_21 |-> dist_derivs_21,
                       rr_20 |-> rr_20, rr_21 |-> rr_21],
               writes |-> {"param_val", "derivatives[0]", "derivatives[1]"},
               news |-> 0, deletes |-> 0,
               acos_calls |-> << [raw |-> raw, arg |-> cos_theta] >>]

\* if (sign < 0.0) param_val = -theta; else param_val = theta;
dihedral_signed(theta, sign) == IF FLt(sign, Num(0)) THEN FNeg(theta) ELSE theta

\* Mutant: calc_dihedral tests its s the way the derivative variant tests its
\* sign, although s is the negative of sign.
calc_dihedral_signed_as_sign(theta, s) ==
    IF FLt(s, Num(0)) THEN FNeg(theta) ELSE theta

\* if (s > 0.0) param_val = -theta; else param_val = theta;
calc_dihedral_signed(theta, s) == IF FGt(s, Num(0)) THEN FNeg(theta) ELSE theta

\* The body of conditionally_calc_dihedral_and_derivatives, which reads every
\* parameter but cutoff2.
dihedral_and_derivatives(ids, pos, box, pv, derivs) ==
    LET disp03 == subtract_min_image_vectors(Pair(ids[3], ids[0]), pos, box)
        disp23 == subtract_min_image_vectors(Pair(ids[3], ids[2]), pos, box)
        disp12 == subtract_min_image_vectors(Pair(ids[2], ids[1]), pos, box)
        rrbc == FDiv(One, FSqrt(dot_product(disp23, disp23)))
        pb == cross_product(disp03, disp23)
        pc == cross_product(disp12, disp23)
        pb2 == dot_product(pb, pb)
        rpb1 == FDiv(One, FSqrt(pb2))
        pc2 == dot_product(pc, pc)
        rpc1 == FDiv(One, FSqrt(pc2))
        pbpc == dot_product(pb, pc)
        raw == FMul(FMul(pbpc, rpb1), rpc1)
        cos_theta == check_cos(raw)
        theta == Acos(cos_theta)
        sign == FMul(FMul(FNeg(dot_product(pb, disp12)), rpb1), rrbc)
        dot03_23 == dot_product(disp03, disp23)
        dot12_23 == dot_product(disp12, disp23)
        r23_2 == dot_product(disp23, disp23)
        fcoef == FDiv(dot03_23, r23_2)
        hcoef == FAdd(One, FDiv(dot12_23, r23_2))
        dtf == ForAxes(LAMBDA i : FDiv(pb[i], FMul(rrbc, pb2)))
        dth == ForAxes(LAMBDA i : FDiv(FNeg(pc[i]), FMul(rrbc, pc2)))
    IN  [ret |-> TRUE,
         param_val |-> dihedral_signed(theta, sign),
         derivatives |->
            [derivs EXCEPT
               ![0] = dtf,
               ![1] = dth,
               ![2] = ForAxes(LAMBDA i :
                         FSub(FMul(FNeg(dtf[i]), fcoef), FMul(dth[i], hcoef)))],
         writes |-> {"param_val", "derivatives[0]", "derivatives[1]",
                     "derivatives[2]"},
         news |-> 0, deletes |-> 0,
         acos_calls |-> << [raw |-> raw, arg |-> cos_theta] >>]

\* Mutant: the dihedral is gated on the central bond like the other
\* conditionally_calc functions.
conditionally_calc_dihedral_gated(ids, pos, box, cutoff2, pv, derivs) ==
    LET sq == conditionally_calc_squared_distance_and_derivatives(
                 Pair(ids[3], ids[2]), pos, box, cutoff2, Uninit, NewArray(1))
    IN  IF sq.ret THEN dihedral_and_derivatives(ids, pos, box, pv, derivs)
        ELSE [ret |-> FALSE, param_val |-> pv, derivatives |-> derivs,
              writes |-> {}, news |-> 0, deletes |-> 0, acos_calls |-> <<>>]

conditionally_calc_dihedral_and_derivatives(ids, pos, box, cutoff2, pv, derivs) ==
    dihedral_and_derivatives(ids, pos, box, pv, derivs)

\* ---------------------------------------------------- functions without derivatives
calc_squared_distance(ids, pos, box, pv, derivs) ==
    LET displacement == subtract_min_image_vectors(ids, pos, box)
        rr2 == Sum3(ForAxes(LAMBDA i : FMul(displacement[i], displacement[i])))
    IN  [ret |-> TRUE, param_val |-> rr2, derivatives |-> derivs,
         writes |-> {"param_val"}, news |-> 0, deletes |-> 0,
         acos_calls |-> <<>>]

calc_distance(ids, pos, box, pv, derivs) ==
    LET sq == calc_squared_distance(ids, pos, box, pv, derivs)
    IN  [sq EXCEPT !.param_val = FSqrt(sq.param_val)]

calc_angle(ids, pos, box, pv, derivs) ==
    LET sq20 == conditionally_calc_squared_distance_and_derivatives(
                   Pair(ids[2], ids[0]), pos, box, Num(MAXFLOAT), Uninit, NewArray(1))
        sq21 == conditionally_calc_squared_distance_and_derivatives(
                   Pair(ids[2], ids[1]), pos, box, Num(MAXFLOAT), Uninit, NewArray(1))
        dist_derivs_20 == sq20.derivatives
        dist_derivs_21 == sq21.derivatives
        rr_20 == FSqrt(sq20.param_val)
        rr_21 == FSqrt(sq21.param_val)
        raw == FDiv(dot_product(dist_derivs_20[0], dist_derivs_21[0]),
                    FMul(FMul(Four, rr_20), rr_21))
        cos_theta == check_cos(raw)
        theta == Acos(cos_theta)
    IN  [ret |-> TRUE,
         param_val |-> FMul(theta, Num(DEGREES_PER_RADIAN)),
         derivatives |-> derivs,
         writes |-> {"param_val"}, news |-> 2, deletes |-> 2,
         acos_calls |-> << [raw |-> raw, arg |-> cos_theta] >>]

calc_dihedral(ids, pos, box, pv, derivs) ==
    LET disp03 == subtract_min_image_vectors(Pair(ids[3], ids[0]), pos, box)
        disp23 == subtract_min_image_vectors(Pair(ids[3], ids[2]), pos, box)
        disp12 == subtract_min_image_vectors(Pair(ids[2], ids[1]), pos, box)
        rrbc == FDiv(One, FSqrt(dot_product(disp23, disp23)))
        pb == cross_product(disp03, disp23)
        pc == cross_product(disp12, disp23)
        pb2 == dot_product(pb, pb)
        rpb1 == FDiv(One, FSqrt(pb2))
        pc2 == dot_product(pc, pc)
        rpc1 == FDiv(One, FSqrt(pc2))
        pbpc == dot_product(pb, pc)
        raw == FMul(FMul(pbpc, rpb1), rpc1)
        c == check_cos(raw)
        theta == FMul(Acos(c), Num(DEGREES_PER_RADIAN))
        s == FMul(FMul(dot_product(pb, disp12), rpb1), rrbc)
    IN  [ret |-> TRUE,
         param_val |-> calc_dihedral_signed(theta, s),
         derivatives |-> derivs,
         writes |-> {"param_val"}, news |-> 0, deletes |-> 0,
         acos_calls |-> << [raw |-> raw, arg |-> c] >>]

\* ------------------------------------------------------------------- state
VARIABLES
    particle_positions,           \* rvec* : particle -> axis -> lattice value
    simulation_box_half_lengths,  \* real* : axis -> lattice value
    particle_ids,                 \* int*  : 0..3 -> particle
    cutoff2,                      \* the cutoff2 argument of the last call
    param_val,                    \* the caller's double param_val
    derivatives,                  \* the caller's buffer of 3 derivative vectors
    intermediates,                \* the caller's dist_derivs_20/21, rr_20, rr_21
    displacement,                 \* the caller's displacement array
    ret,                          \* the value the last call returned
    last,                         \* the function called last
    writes,                       \* the output locations the last call assigned
    live,                         \* scratch arrays allocated and not yet deleted
    acos_calls,                   \* the acos calls of the last call
    l,                            \* the l argument of the last get_minimum_image
    before,                       \* the inputs as the last call received them
    threads,                      \* per thread: its call, position, locals, outputs
    scratch                       \* the scratch buffers of the calls in progress

inputs == <<particle_positions, simulation_box_half_lengths, particle_ids>>
vars == <<particle_positions, simulation_box_half_lengths, particle_ids, cutoff2,
          param_val, derivatives, intermediates, displacement, ret, last,
          writes, live, acos_calls, l, before, threads, scratch>>

\* Four sites: site 3 at the origin, site 2 on the x axis, site 1 off it in
\* the xy plane, site 0 in the yz plane.  Sites further apart than HalfLen
\* on an axis make the minimum-image correction act.
Configuration(a, b, c, d) ==
    [p \in Particles |->
        CASE p = 3 -> [i \in Axes |-> 0]
          [] p = 2 -> [i \in Axes |-> IF i = 0 THEN a ELSE 0]
          [] p = 1 -> [i \in Axes |-> IF i = 0 THEN a ELSE IF i = 1 THEN b ELSE 0]
          [] p = 0 -> [i \in Axes |-> IF i = 0 THEN 0 ELSE IF i = 1 THEN c ELSE d]]

Configurations ==
    {Configuration(a, b, c, d) : a \in 0 .. MaxCoord, b \in 0 .. MaxCoord,
                                 c \in -MaxCoord .. MaxCoord,
                                 d \in -MaxCoord .. MaxCoord}

\* The id arrays a caller passes: the sites in order, and in reverse order.
IdArrays == {[k \in 0 .. 3 |-> k], [k \in 0 .. 3 |-> 3 - k]}

\* The cutoffs a caller passes: small ones, which gate, and MAXFLOAT.
Cutoffs == {D(c) : c \in 0 .. MaxCutoff2} \cup {Num(MAXFLOAT)}

\* The caller's output buffers as it hands them to a call: allocated, not
\* yet written.
FreshIntermediates ==
    [dist_derivs_20 |-> NewArray(1), dist_derivs_21 |-> NewArray(1),
     rr_20 |-> Uninit, rr_21 |-> Uninit]

\* Two threads of the caller's program, each calling into the library.
Threads == {"t1", "t2"}

\* A thread outside any call, with output buffers it has not written.
Idle ==
    [pc |-> "idle", fn |-> "none", cutoff2 |-> Num(0),
     rr2_20 |-> Uninit, rr2_21 |-> Uninit, within_20 |-> FALSE, within_21 |-> FALSE,
     ret |-> TRUE, param_val |-> Uninit, derivatives |-> NewArray(3)]

\* Scratch buffers as new[] returns them and as delete[] leaves them: of
\* indeterminate content.
NoScratch == [dist_derivs_20 |-> NewArray(1), dist_derivs_21 |-> NewArray(1)]

NoBuffers ==
    /\ param_val = Uninit
    /\ derivatives = NewArray(3)
    /\ intermediates = FreshIntermediates
    /\ displacement = ForAxes(LAMBDA i : Uninit)
    /\ cutoff2 = Num(0)
    /\ ret = TRUE
    /\ last = "none"
    /\ writes = {}
    /\ live = 0
    /\ acos_calls = <<>>
    /\ l = 0
    /\ threads = [t \in Threads |-> Idle]
    /\ scratch = [t \in Threads |-> NoScratch]
    /\ before = [frx |-> particle_positions, box |-> simulation_box_half_lengths,
                 ids |-> particle_ids]

Init ==
    /\ particle_positions \in Configurations
    /\ simulation_box_half_lengths = [i \in Axes |-> HalfLen]
    /\ particle_ids \in IdArrays
    /\ NoBuffers

\* A call of `name` with cutoff c whose outcome is the record r.  The caller
\* hands every call output buffers it has not written (param_val = Uninit,
\* derivatives = NewArray(3)); the state keeps their content after the call
\* until the caller has taken the result.  The heap (live) persists from
\* call to call.
Returned(name, c, r) ==
    /\ last = "none"
    /\ last' = name
    /\ cutoff2' = c
    /\ ret' = r.ret
    /\ param_val' = r.param_val
    /\ derivatives' = r.derivatives
    /\ writes' = r.writes
    /\ live' = live + r.news - r.deletes
    /\ acos_calls' = r.acos_calls
    /\ before' = [frx |-> particle_positions, box |-> simulation_box_half_lengths,
                 ids |-> particle_ids]
    /\ UNCHANGED <<inputs, displacement, l, threads, scratch>>

SquaredDistanceAndDerivatives ==
    \E c \in Cutoffs :
        /\ Returned("conditionally_calc_squared_distance_and_derivatives", c,
              conditionally_calc_squared_distance_and_derivatives(
                 particle_ids, particle_positions, simulation_box_half_lengths,
                 c, Uninit, NewArray(3)))
        /\ intermediates' = FreshIntermediates

DistanceAndDerivatives ==
    \E c \in Cutoffs :
        /\ Returned("conditionally_calc_distance_and_derivatives", c,
              conditionally_calc_distance_and_derivatives(
                 particle_ids, particle_positions, simulation_box_half_lengths,
                 c, Uninit, NewArray(3)))
        /\ intermediates' = FreshIntermediates

AngleAndDerivatives ==
    \E c \in Cutoffs :
        /\ Returned("conditionally_calc_angle_and_derivatives", c,
              conditionally_calc_angle_and_derivatives(
                 particle_ids, particle_positions, simulation_box_half_lengths,
                 c, Uninit, NewArray(3)))
        /\ intermediates' = FreshIntermediates

AngleAndIntermediates ==
    \E c \in Cutoffs :
        LET r == conditionally_calc_angle_and_intermediates(
                    particle_ids, particle_positions, simulation_box_half_lengths,
                    c, FreshIntermediates, Uninit, NewArray(3))
        IN  /\ Returned("conditionally_calc_angle_and_intermediates", c, r)
            /\ intermediates' = r.im

DihedralAndDerivatives ==
    \E c \in Cutoffs :
        /\ Returned("conditionally_calc_dihedral_and_derivatives", c,
              conditionally_calc_dihedral_and_derivatives(
                 particle_ids, particle_positions, simulation_box_half_lengths,
                 c, Uninit, NewArray(3)))
        /\ intermediates' = FreshIntermediates

CalcSquaredDistance ==
    /\ Returned("calc_squared_distance", cutoff2,
          calc_squared_distance(particle_ids, particle_positions,
             simulation_box_half_lengths, Uninit, NewArray(3)))
    /\ intermediates' = FreshIntermediates

CalcDistance ==
    /\ Returned("calc_distance", cutoff2,
          calc_distance(particle_ids, particle_positions,
             simulation_box_half_lengths, Uninit, NewArray(3)))
    /\ intermediates' = FreshIntermediates

CalcAngle ==
    /\ Returned("calc_angle", cutoff2,
          calc_angle(particle_ids, particle_positions,
             simulation_box_half_lengths, Uninit, NewArray(3)))
    /\ intermediates' = FreshIntermediates

CalcDihedral ==
    /\ Returned("calc_dihedral", cutoff2,
          calc_dihedral(particle_ids, particle_positions,
             simulation_box_half_lengths, Uninit, NewArray(3)))
    /\ intermediates' = FreshIntermediates

\* The caller has read the outputs and hands fresh buffers to its next call.
CallerTakesResult ==
    /\ last # "none"
    /\ last' = "none"
    /\ param_val' = Uninit
    /\ derivatives' = NewArray(3)
    /\ intermediates' = FreshIntermediates
    /\ cutoff2' = Num(0)
    /\ ret' = TRUE
    /\ writes' = {}
    /\ acos_calls' = <<>>
    /\ displacement' = ForAxes(LAMBDA i : Uninit)
    /\ l' = 0
    /\ before' = [frx |-> particle_positions, box |-> simulation_box_half_lengths,
                 ids |-> particle_ids]
    /\ UNCHANGED <<inputs, live, threads, scratch>>

Next ==
    \/ SquaredDistanceAndDerivatives
    \/ DistanceAndDerivatives
    \/ AngleAndDerivatives
    \/ AngleAndIntermediates
    \/ DihedralAndDerivatives
    \/ CalcSquaredDistance
    \/ CalcDistance
    \/ CalcAngle
    \/ CalcDihedral
    \/ CallerTakesResult

Spec == Init /\ [][Next]_vars

\* ------------------------------------------------ the minimum-image functions
\* Positions up to MaxWide below the origin and 2 * MaxWide above it.
MaxWide == 7

\* A box with a different half-length on every axis: 1, 2, 3.
ImageBox == ForAxes(LAMBDA i : i + 1)

\* Site 0 at the origin, site 1 anywhere on the diagonal, site 2 just below
\* the primary cell, site 3 on its upper corner (exactly one box length).
ImagePositions(x) ==
    [p \in Particles |->
        CASE p = 0 -> ForAxes(LAMBDA i : 0)
          [] p = 1 -> ForAxes(LAMBDA i : x)
          [] p = 2 -> ForAxes(LAMBDA i : -1)
          [] p = 3 -> ForAxes(LAMBDA i : 2 * ImageBox[i])]

ImageInit ==
    /\ particle_positions \in {ImagePositions(x) : x \in -MaxWide .. 2 * MaxWide}
    /\ simulation_box_half_lengths = ImageBox
    /\ particle_ids \in IdArrays
    /\ NoBuffers

GetMinimumImage ==
    \E ll \in Particles :
        /\ last = "none"
        /\ last' = "get_minimum_image"
        /\ l' = ll
        /\ before' = [frx |-> particle_positions, box |-> simulation_box_half_lengths,
                 ids |-> particle_ids]
        /\ particle_positions' =
              get_minimum_image(ll, particle_positions, simulation_box_half_lengths)
        /\ UNCHANGED <<simulation_box_half_lengths, particle_ids, cutoff2, param_val,
                       derivatives, intermediates, displacement, ret, writes, live,
                       acos_calls, threads, scratch>>

SubtractMinImageVectors ==
    /\ last = "none"
    /\ last' = "subtract_min_image_vectors"
    /\ before' = [frx |-> particle_positions, box |-> simulation_box_half_lengths,
                 ids |-> particle_ids]
    /\ displacement' =
          subtract_min_image_vectors(particle_ids, particle_positions,
                                     simulation_box_half_lengths)
    /\ UNCHANGED <<inputs, cutoff2, param_val, derivatives, intermediates, ret,
                   writes, live, acos_calls, l, threads, scratch>>

ImageNext ==
    \/ GetMinimumImage
    \/ SubtractMinImageVectors
    \/ CallerTakesResult

SpecImage == ImageInit /\ [][ImageNext]_vars

\* ------------------------------------------------- two threads in the library
(* The functions called from two threads at once, on the same positions, box
   and ids.  Each thread has its own output buffers (param_val, derivatives)
   and its own automatic variables; a call advances one statement group at a
   time and the threads interleave between the groups.                       *)

\* Coordinates of the sites the threads share.
MaxCoordConc == 1

ConcConfigurations ==
    {Configuration(a, b, c, d) : a \in 0 .. MaxCoordConc, b \in 0 .. MaxCoordConc,
                                 c \in -MaxCoordConc .. MaxCoordConc,
                                 d \in -MaxCoordConc .. MaxCoordConc}

\* One cutoff that gates some of the sub-pairs, and MAXFLOAT.
ConcCutoffs == {D(1), Num(MAXFLOAT)}

ConcFunctions == {"conditionally_calc_distance_and_derivatives",
                  "conditionally_calc_angle_and_derivatives",
                  "conditionally_calc_dihedral_and_derivatives"}

\* The first statement group of each function.
Entry(fn) ==
    CASE fn = "conditionally_calc_distance_and_derivatives" -> "distance_squared"
      [] fn = "conditionally_calc_angle_and_derivatives" -> "angle_new"
      [] fn = "conditionally_calc_dihedral_and_derivatives" -> "dihedral"

\* Mutant: the scratch buffers are static, one pair for all calls.
scratch_of_call_static(t) == "t1"

\* new std::array<double, 3>[1]: the scratch buffers belong to the call that
\* allocated them.
scratch_of_call(t) == t

ConcInit ==
    /\ particle_positions \in ConcConfigurations
    /\ simulation_box_half_lengths = [i \in Axes |-> HalfLen]
    /\ particle_ids \in IdArrays
    /\ NoBuffers

\* What a thread step leaves alone: the inputs and all state of the
\* single-threaded caller.
ThreadStep(t, th, sc) ==
    /\ threads' = [threads EXCEPT ![t] = th]
    /\ scratch' = sc
    /\ UNCHANGED <<inputs, cutoff2, param_val, derivatives, intermediates,
                   displacement, ret, last, writes, live, acos_calls, l, before>>

ThreadCalls(t) ==
    \E fn \in ConcFunctions, c \in ConcCutoffs :
        /\ threads[t].pc = "idle"
        /\ ThreadStep(t, [Idle EXCEPT !.pc = Entry(fn), !.fn = fn, !.cutoff2 = c],
                      scratch)

\* conditionally_calc_squared_distance_and_derivatives(...) as called by
\* conditionally_calc_distance_and_derivatives.
DistanceSquared(t) ==
    LET th == threads[t]
        sq == conditionally_calc_squared_distance_and_derivatives(
                 particle_ids, particle_positions, simulation_box_half_lengths,
                 th.cutoff2, th.param_val, th.derivatives)
    IN  /\ th.pc = "distance_squared"
        /\ ThreadStep(t, [th EXCEPT !.pc = "distance_root", !.within_20 = sq.ret,
                                    !.param_val = sq.param_val,
                                    !.derivatives = sq.derivatives],
                      scratch)

\* if (within_cutoff) { param_val = sqrt(param_val); ... } return within_cutoff;
DistanceRoot(t) ==
    LET th == threads[t]
        r == distance_within_cutoff([param_val |-> th.param_val,
                                     derivatives |-> th.derivatives])
    IN  /\ th.pc = "distance_root"
        /\ ThreadStep(t, IF th.within_20
                         THEN [th EXCEPT !.pc = "done", !.ret = TRUE,
                                         !.param_val = r.param_val,
                                         !.derivatives = r.derivatives]
                         ELSE [th EXCEPT !.pc = "done", !.ret = FALSE],
                      scratch)

\* The two new[] pairs at the head of conditionally_calc_angle_and_derivatives.
AngleNew(t) ==
    LET th == threads[t]
    IN  /\ th.pc = "angle_new"
        /\ ThreadStep(t, [th EXCEPT !.pc = "angle_squared_20"],
                      [scratch EXCEPT ![scratch_of_call(t)] = NoScratch])

\* bool within_cutoff_20 = conditionally_calc_squared_distance_and_derivatives(
\*     particle_ids_20, ..., rr2_20, dist_derivs_20);
AngleSquared20(t) ==
    LET th == threads[t]
        o == scratch_of_call(t)
        sq == conditionally_calc_squared_distance_and_derivatives(
                 Pair(particle_ids[2], particle_ids[0]), particle_positions,
                 simulation_box_half_lengths, th.cutoff2, th.rr2_20,
                 scratch[o].dist_derivs_20)
    IN  /\ th.pc = "angle_squared_20"
        /\ ThreadStep(t, [th EXCEPT !.pc = "angle_squared_21",
                                    !.rr2_20 = sq.param_val, !.within_20 = sq.ret],
                      [scratch EXCEPT ![o].dist_derivs_20 = sq.derivatives])

AngleSquared21(t) ==
    LET th == threads[t]
        o == scratch_of_call(t)
        sq == conditionally_calc_squared_distance_and_derivatives(
                 Pair(particle_ids[2], particle_ids[1]), particle_positions,
                 simulation_box_half_lengths, th.cutoff2, th.rr2_21,
                 scratch[o].dist_derivs_21)
    IN  /\ th.pc = "angle_squared_21"
        /\ ThreadStep(t, [th EXCEPT !.pc = "angle_finish",
                                    !.rr2_21 = sq.param_val, !.within_21 = sq.ret],
                      [scratch EXCEPT ![o].dist_derivs_21 = sq.derivatives])

\* The rest of conditionally_calc_angle_and_derivatives: the early exit, or
\* the angle and its derivatives from the scratch buffers; both delete them.
AngleFinish(t) ==
    LET th == threads[t]
        o == scratch_of_call(t)
        r == IF ~th.within_20 \/ ~th.within_21
             THEN angle_cutoff_exit(th.param_val, th.derivatives)
             ELSE angle_within_cutoff(scratch[o].dist_derivs_20,
                                      scratch[o].dist_derivs_21,
                                      th.rr2_20, th.rr2_21, th.derivatives)
    IN  /\ th.pc = "angle_finish"
        /\ ThreadStep(t, [th EXCEPT !.pc = "done", !.ret = r.ret,
                                    !.param_val = r.param_val,
                                    !.derivatives = r.derivatives],
                      [scratch EXCEPT ![o] = NoScratch])

\* conditionally_calc_dihedral_and_derivatives works in automatic arrays only.
Dihedral(t) ==
    LET th == threads[t]
        r == conditionally_calc_dihedral_and_derivatives(
                particle_ids, particle_positions, simulation_box_half_lengths,
                th.cutoff2, th.param_val, th.derivatives)
    IN  /\ th.pc = "dihedral"
        /\ ThreadStep(t, [th EXCEPT !.pc = "done", !.ret = r.ret,
                                    !.param_val = r.param_val,
                                    !.derivatives = r.derivatives],
                      scratch)

\* The thread has read its outputs and is free to call again.
ThreadTakesResult(t) ==
    /\ threads[t].pc = "done"
    /\ ThreadStep(t, Idle, scratch)

ConcNext ==
    \E t \in Threads :
        \/ ThreadCalls(t)
        \/ DistanceSquared(t)
        \/ DistanceRoot(t)
        \/ AngleNew(t)
        \/ AngleSquared20(t)
        \/ AngleSquared21(t)
        \/ AngleFinish(t)
        \/ Dihedral(t)
        \/ ThreadTakesResult(t)

SpecConc == ConcInit /\ [][ConcNext]_vars

\* ===================================================================== claims
\* What the claims measure the functions against, stated on the lattice values
\* of the positions, independently of the operators above.

\* The raw difference position[b] - position[a] on axis i.
RawDiff(frx, a, b, i) == frx[b][i] - frx[a][i]
\* The periodic images of a difference d one box length away, and d itself.
Images(d, H) == {d, d - 2 * H, d + 2 * H}
SetMin(S) == CHOOSE m \in S : \A q \in S : m <= q
\* The minimum-image squared distance between sites a and b.
MinImageSquared(frx, box, a, b) ==
    LET sq(i) == SetMin({q * q : q \in Images(RawDiff(frx, a, b, i), box[i])})
    IN  sq(0) + sq(1) + sq(2)
\* The displacement of section 4.1 of the specification on one axis.
Shortest(d, H) == IF d > H THEN d - 2 * H ELSE IF d < -H THEN d + 2 * H ELSE d
ShortestVector(frx, box, a, b) ==
    ForAxes(LAMBDA i : Shortest(RawDiff(frx, a, b, i), box[i]))
Cross(u, v) ==
    (0 :> (u[1] * v[2] - u[2] * v[1])) @@ (1 :> (u[2] * v[0] - u[0] * v[2]))
        @@ (2 :> (u[0] * v[1] - u[1] * v[0]))
Dot(u, v) == u[0] * v[0] + u[1] * v[1] + u[2] * v[2]
\* Some axis on which the pair (a, b) is wrapped.
Wrapped(frx, box, a, b) ==
    \E i \in Axes : Shortest(RawDiff(frx, a, b, i), box[i]) # RawDiff(frx, a, b, i)
\* A written, defined double: neither indeterminate memory nor NaN.
Negative(x) == (IsNum(x) /\ x[2] < 0) \/ (IsInf(x) /\ x[2] = -1)
Positive(x) == (IsNum(x) /\ x[2] > 0) \/ (IsInf(x) /\ x[2] = 1)
UnwrittenVector == ForAxes(LAMBDA i : Uninit)

\* ------------------------------------------------------------------------ C2
\* C2: on every axis with half-length H > 0 on which the raw difference d of
\* the two positions satisfies |d| <= 2H, the displacement component that
\* subtract_min_image_vectors produces lies in [-H, H], differs from d by 0 or
\* by exactly +/-2H, and has the smallest magnitude among d, d - 2H, d + 2H.
C2_ShortestDisplacement ==
    last = "subtract_min_image_vectors" =>
        \A i \in Axes :
            LET H == simulation_box_half_lengths[i]
                d == RawDiff(particle_positions, particle_ids[0], particle_ids[1], i)
                r == displacement[i]
            IN  (H > 0 /\ Abs(d) <= 2 * H) =>
                    /\ IsNum(r)
                    /\ \E q \in Images(d, H) :
                          /\ r = D(q)
                          /\ -H <= q /\ q <= H
                          /\ \A o \in Images(d, H) : Abs(q) <= Abs(o)

\* The scenario of the specification: positions 0 and 5, half-length 3, give -1.
C2_Witness ==
    /\ last = "subtract_min_image_vectors"
    /\ simulation_box_half_lengths[2] = 3
    /\ RawDiff(particle_positions, particle_ids[0], particle_ids[1], 2) = 5
    /\ displacement[2] = D(-1)

\* ------------------------------------------------------------------------ C3
\* C3: get_minimum_image(l, frx, box) applies at most one correction of
\* 2*half per axis to position l: a coordinate in [-2*half, 4*half) ends in
\* [0, 2*half) congruent to what it was, a coordinate already in [0, 2*half) is
\* unchanged, a coordinate more than one period outside ends outside
\* [0, 2*half), and no other position and no box value is modified.
C3_SingleStepWrap ==
    last = "get_minimum_image" =>
        /\ simulation_box_half_lengths = before.box
        /\ \A p \in Particles \ {l} : particle_positions[p] = before.frx[p]
        /\ \A i \in Axes :
              LET x == before.frx[l][i]
                  y == particle_positions[l][i]
                  P == 2 * simulation_box_half_lengths[i]
              IN  /\ y \in {x, x + P, x - P}
                  /\ (-P <= x /\ x < 2 * P) => (0 <= y /\ y < P /\ (y - x) % P = 0)
                  /\ (0 <= x /\ x < P) => y = x
                  /\ (x < -P \/ x >= 2 * P) => ~(0 <= y /\ y < P)

\* Site 1 at (7, 7, 7) in the box of half-lengths (1, 2, 3): more than one
\* period outside on axis 0, one period outside on axes 1 and 2; site 2,
\* itself outside the cell, is not the one wrapped.
C3_Witness ==
    /\ last = "get_minimum_image"
    /\ l = 1
    /\ before.frx[1] = (0 :> 7) @@ (1 :> 7) @@ (2 :> 7)
    /\ particle_positions[1] = (0 :> 5) @@ (1 :> 3) @@ (2 :> 1)
    /\ particle_positions[2] = (0 :> -1) @@ (1 :> -1) @@ (2 :> -1)

\* ------------------------------------------------------------------------ C1
\* C1: conditionally_calc_squared_distance_and_derivatives always writes the
\* minimum-image squared distance into param_val; it returns false exactly
\* when that value is strictly greater than cutoff2, and then leaves the
\* derivative buffer as it was; otherwise (the value equal to cutoff2
\* included) it returns true and derivatives[0][i] is twice the displacement
\* on every axis i.
C1_SquaredDistanceContract ==
    last = "conditionally_calc_squared_distance_and_derivatives" =>
        LET a == particle_ids[0]
            b == particle_ids[1]
            rr2 == MinImageSquared(particle_positions,
                                   simulation_box_half_lengths, a, b)
            disp == ShortestVector(particle_positions,
                                   simulation_box_half_lengths, a, b)
        IN  /\ param_val = D(rr2)
            /\ "param_val" \in writes
            /\ ret = ~(rr2 * SCALE > cutoff2[2])
            /\ ~ret => (derivatives = NewArray(3) /\ writes = {"param_val"})
            /\ ret => /\ \A i \in Axes : derivatives[0][i] = D(2 * disp[i])
                      /\ derivatives[1] = UnwrittenVector
                      /\ derivatives[2] = UnwrittenVector

\* A wrapped pair beyond the cutoff: false, the value written, no derivative.
C1_Witness ==
    /\ last = "conditionally_calc_squared_distance_and_derivatives"
    /\ Wrapped(particle_positions, simulation_box_half_lengths,
               particle_ids[0], particle_ids[1])
    /\ ~ret
    /\ param_val = D(2)
    /\ cutoff2 = D(1)
    /\ derivatives = NewArray(3)

\* A wrapped pair exactly at the cutoff: true, and the derivative written.
C1_AtCutoff ==
    /\ last = "conditionally_calc_squared_distance_and_derivatives"
    /\ Wrapped(particle_positions, simulation_box_half_lengths,
               particle_ids[0], particle_ids[1])
    /\ ret
    /\ param_val = cutoff2
    /\ param_val = D(2)

\* ------------------------------------------------------------------------ C4
\* C4: conditionally_calc_angle_and_derivatives returns false exactly when the
\* squared minimum-image distance from the vertex particle_ids[2] to
\* particle_ids[0] or to particle_ids[1] is strictly greater than cutoff2, and
\* then writes neither param_val nor the derivative buffer; when both are
\* within cutoff2 it returns true and writes param_val, derivatives[0] and
\* derivatives[1].
C4_AngleCutoffContract ==
    last = "conditionally_calc_angle_and_derivatives" =>
        LET v == particle_ids[2]
            rr2_20 == MinImageSquared(particle_positions,
                         simulation_box_half_lengths, v, particle_ids[0])
            rr2_21 == MinImageSquared(particle_positions,
                         simulation_box_half_lengths, v, particle_ids[1])
            beyond == rr2_20 * SCALE > cutoff2[2] \/ rr2_21 * SCALE > cutoff2[2]
        IN  /\ ret = ~beyond
            /\ ~ret => /\ writes = {}
                       /\ param_val = Uninit
                       /\ derivatives = NewArray(3)
            /\ ret => /\ writes = {"param_val", "derivatives[0]", "derivatives[1]"}
                      /\ ~IsUninit(param_val)
                      /\ \A k \in 0 .. 1 : \A i \in Axes : ~IsUninit(derivatives[k][i])
                      /\ derivatives[2] = UnwrittenVector

\* Only the second sub-pair is beyond the cutoff: false, and nothing written.
C4_Witness ==
    /\ last = "conditionally_calc_angle_and_derivatives"
    /\ ~ret
    /\ MinImageSquared(particle_positions, simulation_box_half_lengths,
                       particle_ids[2], particle_ids[0]) * SCALE <= cutoff2[2]
    /\ MinImageSquared(particle_positions, simulation_box_half_lengths,
                       particle_ids[2], particle_ids[1]) * SCALE > cutoff2[2]
    /\ param_val = Uninit
    /\ derivatives = NewArray(3)

\* Both sub-pairs within the cutoff: the right angle of the specification.
C4_RightAngle ==
    /\ last = "conditionally_calc_angle_and_derivatives"
    /\ ret
    /\ cutoff2 = D(1)
    /\ param_val = FMul(Num(Milli(1571)), Num(DEGREES_PER_RADIAN))

\* ------------------------------------------------------------------------ C6
\* C6: conditionally_calc_dihedral_and_derivatives always succeeds: for every
\* cutoff2, one smaller than every pair distance included, it returns true and
\* writes param_val and all three derivative vectors, and its outputs do not
\* depend on cutoff2.
C6_DihedralIgnoresCutoff ==
    last = "conditionally_calc_dihedral_and_derivatives" =>
        /\ ret
        /\ writes = {"param_val", "derivatives[0]", "derivatives[1]",
                     "derivatives[2]"}
        /\ ~IsUninit(param_val)
        /\ \A k \in 0 .. 2 : \A i \in Axes : ~IsUninit(derivatives[k][i])
        /\ \A c \in Cutoffs :
              LET r == conditionally_calc_dihedral_and_derivatives(
                          particle_ids, particle_positions,
                          simulation_box_half_lengths, c, Uninit, NewArray(3))
              IN  /\ r.ret = ret
                  /\ r.param_val = param_val
                  /\ r.derivatives = derivatives

\* Four distinct sites, a cutoff of zero: a dihedral of 90 degrees returned.
C6_Witness ==
    /\ last = "conditionally_calc_dihedral_and_derivatives"
    /\ cutoff2 = Num(0)
    /\ \A a, b \in Particles :
          a # b => MinImageSquared(particle_positions,
                                   simulation_box_half_lengths, a, b) > 0
    /\ ret
    /\ param_val \in {Num(Milli(1571)), Num(-Milli(1571))}

\* ------------------------------------------------------------------------ C7
\* C7: the angle functions that allocate scratch derivative buffers release
\* every one of them exactly once before they return, on the early
\* false-returning exit too: after any sequence of calls no scratch buffer is
\* live.
C7_NoLiveScratch == live = 0

\* The early exit of conditionally_calc_angle_and_derivatives has been taken.
C7_Witness ==
    /\ last = "conditionally_calc_angle_and_derivatives"
    /\ ~ret
    /\ live = 0

\* ------------------------------------------------------------------------ C5
AngleFunctions ==
    {"conditionally_calc_angle_and_derivatives",
     "conditionally_calc_angle_and_intermediates", "calc_angle"}
DihedralFunctions ==
    {"conditionally_calc_dihedral_and_derivatives", "calc_dihedral"}
\* acos of the argument the last call gave it, in degrees.
AcosInDegrees == FMul(Acos(acos_calls[1].arg), Num(DEGREES_PER_RADIAN))
Magnitude(x) == IF Negative(x) THEN FNeg(x) ELSE x

\* C5: every angle- or dihedral-returning function writes into param_val the
\* arccos result multiplied by 180/pi (with a sign for the dihedrals), so that
\* the derivative-returning dihedral and calc_dihedral report the same
\* magnitude for the same four particles.
C5_AnglesInDegrees ==
    /\ (last \in AngleFunctions /\ ret) => param_val = AcosInDegrees
    /\ last \in DihedralFunctions =>
          /\ Magnitude(param_val) = AcosInDegrees
          /\ Magnitude(param_val) =
                Magnitude(calc_dihedral(particle_ids, particle_positions,
                             simulation_box_half_lengths, Uninit,
                             NewArray(3)).param_val)

\* C5, for the functions other than conditionally_calc_dihedral_and_derivatives.
C5_DegreesElsewhere ==
    /\ (last \in AngleFunctions /\ ret) => param_val = AcosInDegrees
    /\ last = "calc_dihedral" => Magnitude(param_val) = AcosInDegrees

\* ------------------------------------------------------------------------ C9
CosMax == SCALE - VERYSMALL_F
CosMin == -SCALE + VERYSMALL_F

\* C9 as claimed: for every input value, the result of check_cos lies in
\* [-1+eps, 1-eps], and it is what acos receives.
C9_ClampForEveryInput ==
    \A k \in 1 .. Len(acos_calls) :
        LET arg == acos_calls[k].arg
        IN  IsNum(arg) /\ CosMin <= arg[2] /\ arg[2] <= CosMax

\* C9, amended: for every input value other than NaN, the result of check_cos
\* lies in [-1+eps, 1-eps]: a value inside is returned unchanged, a value
\* above 1-eps becomes exactly 1-eps, a value below -1+eps exactly -1+eps; a
\* NaN, which coincident particles produce, is returned as it is.  Every angle
\* and dihedral function that computes an angle makes one acos call, on an
\* argument that has passed through check_cos.
C9_ClampUnlessNaN ==
    /\ (last \in AngleFunctions \cup DihedralFunctions /\ ret) => Len(acos_calls) = 1
    /\ \A k \in 1 .. Len(acos_calls) :
          LET raw == acos_calls[k].raw
              arg == acos_calls[k].arg
          IN  /\ IsNaN(raw) => IsNaN(arg)
              /\ ~IsNaN(raw) =>
                    /\ IsNum(arg) /\ CosMin <= arg[2] /\ arg[2] <= CosMax
                    /\ (IsNum(raw) /\ CosMin <= raw[2] /\ raw[2] <= CosMax) => arg = raw
                    /\ FGt(raw, Num(CosMax)) => arg = Num(CosMax)
                    /\ FLt(raw, Num(CosMin)) => arg = Num(CosMin)
              /\ check_cos(arg) = arg

\* A trans arrangement: the cosine computed is -1 and acos receives -1+eps.
C9_Witness ==
    /\ last = "calc_dihedral"
    /\ Len(acos_calls) = 1
    /\ acos_calls[1].raw = Num(-SCALE)
    /\ acos_calls[1].arg = Num(CosMin)

\* ----------------------------------------------------------------------- C10
\* dot(pb, disp12) with pb = disp03 x disp23, and the squared lengths of the
\* two plane normals pb and pc, for the particles of the state.
DihedralGeometry ==
    LET disp03 == ShortestVector(particle_positions, simulation_box_half_lengths,
                                 particle_ids[3], particle_ids[0])
        disp23 == ShortestVector(particle_positions, simulation_box_half_lengths,
                                 particle_ids[3], particle_ids[2])
        disp12 == ShortestVector(particle_positions, simulation_box_half_lengths,
                                 particle_ids[2], particle_ids[1])
        pb == Cross(disp03, disp23)
        pc == Cross(disp12, disp23)
    IN  [dot |-> Dot(pb, disp12), pb2 |-> Dot(pb, pb), pc2 |-> Dot(pc, pc)]

\* What the two dihedral functions return for the particles of the state.
BothDihedrals ==
    [derivs |-> conditionally_calc_dihedral_and_derivatives(
                   particle_ids, particle_positions, simulation_box_half_lengths,
                   cutoff2, Uninit, NewArray(3)).param_val,
     plain |-> calc_dihedral(particle_ids, particle_positions,
                   simulation_box_half_lengths, Uninit, NewArray(3)).param_val]

\* C10 as claimed: calc_dihedral returns a negative value if and only if
\* conditionally_calc_dihedral_and_derivatives does, both negate exactly when
\* dot(pb, disp12) is strictly positive, and both return a positive value when
\* that dot product is zero.
C10_OneSignConvention ==
    last \in DihedralFunctions =>
        /\ param_val = (IF last = "calc_dihedral" THEN BothDihedrals.plain
                        ELSE BothDihedrals.derivs)
        /\ Negative(BothDihedrals.plain) <=> Negative(BothDihedrals.derivs)
        /\ Negative(param_val) <=> DihedralGeometry.dot > 0
        /\ DihedralGeometry.dot = 0 =>
              (Positive(BothDihedrals.plain) /\ Positive(BothDihedrals.derivs))

\* C10, amended: calc_dihedral returns a negative value if and only if
\* conditionally_calc_dihedral_and_derivatives does, and both negate exactly
\* when dot(pb, disp12) is strictly positive; when that dot product is zero
\* both return a positive value, unless one of the plane normals pb and pc is
\* the zero vector (coincident or collinear particles), where both return NaN.
C10_OneSignConventionUnlessDegenerate ==
    last \in DihedralFunctions =>
        /\ param_val = (IF last = "calc_dihedral" THEN BothDihedrals.plain
                        ELSE BothDihedrals.derivs)
        /\ Negative(BothDihedrals.plain) <=> Negative(BothDihedrals.derivs)
        /\ Negative(param_val) <=> DihedralGeometry.dot > 0
        /\ (DihedralGeometry.pb2 = 0 \/ DihedralGeometry.pc2 = 0) =>
              (IsNaN(BothDihedrals.plain) /\ IsNaN(BothDihedrals.derivs))
        /\ (DihedralGeometry.pb2 # 0 /\ DihedralGeometry.pc2 # 0) =>
              /\ IsNum(BothDihedrals.plain) /\ IsNum(BothDihedrals.derivs)
              /\ DihedralGeometry.dot = 0 =>
                    (Positive(BothDihedrals.plain) /\ Positive(BothDihedrals.derivs))

\* A left-handed arrangement: dot(pb, disp12) > 0 and calc_dihedral negative.
C10_Witness ==
    /\ last = "calc_dihedral"
    /\ DihedralGeometry.dot > 0
    /\ Negative(param_val)
    /\ Negative(BothDihedrals.derivs)

\* A planar arrangement: dot(pb, disp12) = 0 and both values positive.
C10_Planar ==
    /\ last = "conditionally_calc_dihedral_and_derivatives"
    /\ DihedralGeometry.dot = 0
    /\ Positive(param_val)
    /\ Positive(BothDihedrals.plain)

\* ---------------------------------------------------------------------- C8
\* What a single-threaded call of fn with cutoff c yields on the shared inputs.
Sequential(fn, c) ==
    CASE fn = "conditionally_calc_distance_and_derivatives" ->
            conditionally_calc_distance_and_derivatives(
               particle_ids, particle_positions, simulation_box_half_lengths,
               c, Uninit, NewArray(3))
      [] fn = "conditionally_calc_angle_and_derivatives" ->
            conditionally_calc_angle_and_derivatives(
               particle_ids, particle_positions, simulation_box_half_lengths,
               c, Uninit, NewArray(3))
      [] fn = "conditionally_calc_dihedral_and_derivatives" ->
            conditionally_calc_dihedral_and_derivatives(
               particle_ids, particle_positions, simulation_box_half_lengths,
               c, Uninit, NewArray(3))

\* C8: two threads calling the functions at the same time on the same
\* positions, box and ids, each with its own output buffers, never change the
\* positions, the box or the ids, and every call that has finished left in
\* its thread's buffers exactly the return value, param_val and derivatives
\* of the same call made alone, however the two calls interleaved.
C8_ConcurrentCallsAreIndependent ==
    /\ particle_positions = before.frx
    /\ simulation_box_half_lengths = before.box
    /\ particle_ids = before.ids
    /\ \A t \in Threads :
          threads[t].pc = "done" =>
             LET r == Sequential(threads[t].fn, threads[t].cutoff2)
             IN  /\ threads[t].ret = r.ret
                 /\ threads[t].param_val = r.param_val
                 /\ threads[t].derivatives = r.derivatives

\* One thread has finished an angle within the cutoff while the other is
\* in the middle of its own angle call, its scratch buffers filled.
C8_Witness ==
    /\ threads["t1"].pc = "done"
    /\ threads["t1"].fn = "conditionally_calc_angle_and_derivatives"
    /\ threads["t1"].ret = TRUE
    /\ IsNum(threads["t1"].param_val)
    /\ threads["t2"].pc = "angle_finish"
    /\ threads["t2"].within_20 /\ threads["t2"].within_21
    /\ IsNum(scratch["t2"].dist_derivs_20[0][0])
    /\ scratch["t1"] = NoScratch

=============================================================================
